---------------------------- MODULE Spec2Model ----------------------------
(***************************************************************************)
(* A state-machine model of SkySphere (src/src/SkySphere.js) and of the    *)
(* debug page that drives it (src/unnamed/part_000).                       *)
(*                                                                         *)
(* Numbers.  A JavaScript number is modelled as an exact rational <<n, d>> *)
(* in lowest terms with d > 0, extended with the three IEEE specials       *)
(* Infinity = <<1, 0>>, -Infinity = <<-1, 0>> and NaN = <<0, 0>>.  The     *)
(* arithmetic follows IEEE on the specials (0 * Infinity = NaN, x / 0 =    *)
(* +-Infinity, 0 / 0 = NaN, every comparison with NaN is false).  Rounding *)
(* and the sign of zero are not modelled.  `undefined' is <<>>.            *)
(*                                                                         *)
(* Angles.  Math.sin and Math.cos are modelled by the rational             *)
(* parametrisation of the unit circle: with h = t / 2,                     *)
(*     Sin(t) = 2h / (1 + h^2),    Cos(t) = (1 - h^2) / (1 + h^2),         *)
(* so that Sin(t)^2 + Cos(t)^2 = 1 holds exactly, Sin(0) = 0, Cos(0) = 1,  *)
(* Sin(-t) = -Sin(t), Cos(-t) = Cos(t), and Sin(2) = 1, Cos(2) = 0: a      *)
(* quarter turn is the number 2, which is why PI is 4 in these units.      *)
(***************************************************************************)
EXTENDS Integers, Sequences, FiniteSets, TLC

VARIABLES
    instances,     \* var instances = []: the registry, in construction order
    sky,           \* own properties of each constructed SkySphere
    starLines,     \* SkySphere.prototype.starLines
    starPoints,    \* SkySphere.prototype.starPoints
    objectPoints,  \* SkySphere.prototype.objectPoints
    ptr,           \* the closure variables of init(): startX, startY, prevX, prevY, x, y
    listeners,     \* instances whose onMove/stopMove are registered on window, in order
    timers,        \* pending setTimeout callbacks of centerSkyPoint
    timerSeq,      \* the last timer id handed out by setTimeout
    frames,        \* pending calls of step (requestAnimationFrame / setTimeout)
    renew,         \* var renew
    canvas,        \* what the last drawSky of each instance painted
    clicks,        \* the calls of options.customOnClick made so far
    nOps,          \* number of operations performed (bounds the exploration)
    last           \* the operation performed by the last step

vars == <<instances, sky, starLines, starPoints, objectPoints, ptr, listeners,
          timers, timerSeq, frames, renew, canvas, clicks, nOps, last>>

-----------------------------------------------------------------------------
(* Bounds of the exploration *)

MaxInstances == 2
MaxObjects == 2
MaxOps == 3
MaxRotations == 2
MaxFrames == 2
MaxTimers == 3
MaxPresses == 2
MaxDenominator == 625
MaxSteps == 8

-----------------------------------------------------------------------------
(* JavaScript numbers *)

UNDEFINED == <<>>
NaN == <<0, 0>>
Infinity == <<1, 0>>

Abs(n) == IF n < 0 THEN -n ELSE n
Sgn(n) == IF n < 0 THEN -1 ELSE IF n > 0 THEN 1 ELSE 0

RECURSIVE GCD(_, _)
GCD(a, b) == IF b = 0 THEN a ELSE GCD(b, a % b)

Norm(n, d) ==
    IF d = 0 THEN <<Sgn(n), 0>>
    ELSE LET g == GCD(Abs(n), Abs(d))
         IN  <<Sgn(d) * Sgn(n) * (Abs(n) \div g), Abs(d) \div g>>

R(n, d) == Norm(n, d)
I(n) == <<n, 1>>

IsNaN(a) == a = NaN

Neg(a) == <<-a[1], a[2]>>

Mul(a, b) ==
    LET g1 == GCD(Abs(a[1]), b[2])
        g2 == GCD(Abs(b[1]), a[2])
    IN  IF a[2] = 0 \/ b[2] = 0
        THEN <<Sgn(a[1]) * Sgn(b[1]), 0>>
        ELSE <<(a[1] \div g1) * (b[1] \div g2), (a[2] \div g2) * (b[2] \div g1)>>

Add(a, b) ==
    IF a[2] = 0 /\ b[2] = 0 THEN (IF a = b THEN a ELSE NaN)
    ELSE IF a[2] = 0 THEN a
    ELSE IF b[2] = 0 THEN b
    ELSE LET g == GCD(a[2], b[2])
             l == (a[2] \div g) * b[2]
         IN  Norm(a[1] * (l \div a[2]) + b[1] * (l \div b[2]), l)

Sub(a, b) == Add(a, Neg(b))

Recip(a) ==
    IF a[1] > 0 THEN <<a[2], a[1]>>
    ELSE IF a[1] < 0 THEN <<-a[2], -a[1]>>
    ELSE IF a[2] = 0 THEN NaN ELSE Infinity

Div(a, b) == Mul(a, Recip(b))

\* a < b, false when either is NaN
Lt(a, b) ==
    /\ ~IsNaN(a) /\ ~IsNaN(b)
    /\ CASE a[2] # 0 /\ b[2] # 0 -> Sub(a, b)[1] < 0
         [] a[2] = 0 -> a[1] < 0 /\ b # a
         [] OTHER -> b[1] > 0

Gt(a, b) == Lt(b, a)
\* a === b on numbers: NaN equals nothing
Eq(a, b) == ~IsNaN(a) /\ ~IsNaN(b) /\ a = b
Ge(a, b) == Gt(a, b) \/ Eq(a, b)
Le(a, b) == Lt(a, b) \/ Eq(a, b)

\* Math.abs, Math.min
MathAbs(a) == <<Abs(a[1]), a[2]>>
MathMin(a, b) == IF IsNaN(a) \/ IsNaN(b) THEN NaN ELSE IF Lt(b, a) THEN b ELSE a

\* a || b on numbers-or-undefined: 0, NaN and undefined are falsy
Truthy(a) == a # UNDEFINED /\ a[1] # 0
Or(a, b) == IF Truthy(a) THEN a ELSE b

\* Math.sin, Math.cos (see the head of the module)
Half(t) == Div(t, I(2))
Sin(t) == Div(Mul(I(2), Half(t)), Add(I(1), Mul(Half(t), Half(t))))
Cos(t) == Div(Sub(I(1), Mul(Half(t), Half(t))), Add(I(1), Mul(Half(t), Half(t))))
PI == I(4)

-----------------------------------------------------------------------------
(* The environment: the star catalog, the page, the device *)

\* The module 'constellations': s lists the stars as <<ra, dec>> in radians,
\* l the lines as pairs of indices into s (1-based here).  Star 1 faces the
\* viewer, star 2 is behind the sphere.
constellations ==
    [l |-> << <<1, 2>> >>,
     s |-> << <<I(0), I(1)>>, <<I(2), I(4)>> >>]

\* 'ontouchstart' in window
supportTouch == FALSE
\* Size of the sensitive area around a sky point that detects clicks.
area == IF supportTouch THEN I(15) ELSE I(6)
\* Frame Per Second
FPS == 15

\* canvas.getBoundingClientRect(): the page has no margin and the canvas is its
\* first element
clientRect == [left |-> I(0), top |-> I(0)]


\* The data argument of addCustomObject; NoData is an omitted argument.
NoData == [undefined |-> TRUE]

-----------------------------------------------------------------------------
(* Sky points and the three collections *)

dec2rad(dec) == Div(Mul(Mul(Add(dec, I(90)), I(2)), PI), I(360))
ra2rad(ra) == Div(Mul(Mul(ra, I(2)), PI), I(24))

\* generateSkyPoint of the instance with own properties s
generateSkyPoint(s, ra, dec, data) ==
    [x |-> Add(Mul(Mul(s.radius, Sin(dec)), Cos(ra)), Div(s.containerWidth, I(2))),
     y |-> Add(Mul(Mul(Neg(s.radius), Sin(dec)), Sin(ra)), Div(s.containerHeight, I(2))),
     z |-> Mul(s.radius, Cos(dec)),
     data |-> data]

\* The collections an instance reaches through this.starLines, this.starPoints
\* and this.objectPoints.  No instance ever assigns these properties, so every
\* instance resolves them to the arrays of SkySphere.prototype.
Collections(i) ==
    [starLines |-> starLines, starPoints |-> starPoints, objectPoints |-> objectPoints]

PointCount(c) == 2 * Len(c.starLines) + Len(c.starPoints) + Len(c.objectPoints)

\* The sky points of the collections
SkyPoints(c) ==
    {c.starLines[k].skyPoint1 : k \in DOMAIN c.starLines}
        \cup {c.starLines[k].skyPoint2 : k \in DOMAIN c.starLines}
        \cup {c.starPoints[k] : k \in DOMAIN c.starPoints}
        \cup {c.objectPoints[k] : k \in DOMAIN c.objectPoints}

\* applyTransform that leaves the second end point of the lines alone
applyTransformSkipsSecondEndpoint(c, transform) ==
    [starLines |->
        [k \in DOMAIN c.starLines |->
            [skyPoint1 |-> transform[c.starLines[k].skyPoint1],
             skyPoint2 |-> c.starLines[k].skyPoint2]],
     starPoints |-> [k \in DOMAIN c.starPoints |-> transform[c.starPoints[k]]],
     objectPoints |-> [k \in DOMAIN c.objectPoints |-> transform[c.objectPoints[k]]]]

\* applyTransform: transform, a function of the sky point, is applied to both
\* end points of every line, to every star point and to every object point
applyTransform(c, transform) ==
    [starLines |->
        [k \in DOMAIN c.starLines |->
            [skyPoint1 |-> transform[c.starLines[k].skyPoint1],
             skyPoint2 |-> transform[c.starLines[k].skyPoint2]]],
     starPoints |-> [k \in DOMAIN c.starPoints |-> transform[c.starPoints[k]]],
     objectPoints |-> [k \in DOMAIN c.objectPoints |-> transform[c.objectPoints[k]]]]

-----------------------------------------------------------------------------
(* drawSky *)

\* The first object point drawSky reaches whose data it cannot read
\* (skyPoint.data.color of a point without data), 0 when there is none.
FirstUnreadable(c) ==
    LET bad == {k \in DOMAIN c.objectPoints :
                    Ge(c.objectPoints[k].z, I(0)) /\ c.objectPoints[k].data = NoData}
    IN  IF bad = {} THEN 0 ELSE CHOOSE k \in bad : \A j \in bad : k <= j

\* drawSky with the test of the second endpoint of a line left out
drawSkyFirstEndpointOnly(c) ==
    [lines |-> {k \in DOMAIN c.starLines : Gt(c.starLines[k].skyPoint1.z, I(0))},
     stars |-> {k \in DOMAIN c.starPoints : Ge(c.starPoints[k].z, I(0))},
     objs  |-> {k \in DOMAIN c.objectPoints :
                    /\ Ge(c.objectPoints[k].z, I(0))
                    /\ FirstUnreadable(c) = 0 \/ k < FirstUnreadable(c)},
     threw |-> FirstUnreadable(c) # 0]

\* What drawSky paints, and whether it ends in a TypeError.
drawSky(c) ==
    [lines |-> {k \in DOMAIN c.starLines :
                    Gt(c.starLines[k].skyPoint1.z, I(0)) /\ Gt(c.starLines[k].skyPoint2.z, I(0))},
     stars |-> {k \in DOMAIN c.starPoints : Ge(c.starPoints[k].z, I(0))},
     objs  |-> {k \in DOMAIN c.objectPoints :
                    /\ Ge(c.objectPoints[k].z, I(0))
                    /\ FirstUnreadable(c) = 0 \/ k < FirstUnreadable(c)},
     threw |-> FirstUnreadable(c) # 0]

-----------------------------------------------------------------------------
(* rotateXY, zoom, absoluteZoom, setContainerSize as functions of the          *)
(* instance's own properties s and of its collections c                       *)

\* rotatePoint with the sign of the z term of x slipped
rotatePointSignSlip(skyPoint, dy, dx, centerX, centerY) ==
    LET sindx == Sin(dx)
        cosdx == Cos(dx)
        sindy == Sin(dy)
        cosdy == Cos(dy)
        my1 == Mul(sindx, sindy)
        my3 == Mul(sindx, cosdy)
        mz1 == Mul(cosdx, sindy)
        mz3 == Mul(cosdx, cosdy)
        x == Sub(skyPoint.x, centerX)
        y == Add(Neg(skyPoint.y), centerY)
    IN  [skyPoint EXCEPT
            !.x = Add(Sub(Mul(x, cosdy), Mul(skyPoint.z, sindy)), centerX),
            !.y = Add(Add(Sub(Mul(Neg(x), my1), Mul(y, cosdx)), Mul(skyPoint.z, my3)), centerY),
            !.z = Add(Add(Mul(Neg(x), mz1), Mul(y, sindx)), Mul(skyPoint.z, mz3))]

rotatePoint(skyPoint, dy, dx, centerX, centerY) ==
    LET sindx == Sin(dx)
        cosdx == Cos(dx)
        sindy == Sin(dy)
        cosdy == Cos(dy)
        my1 == Mul(sindx, sindy)
        my3 == Mul(sindx, cosdy)
        mz1 == Mul(cosdx, sindy)
        mz3 == Mul(cosdx, cosdy)
        x == Sub(skyPoint.x, centerX)
        y == Add(Neg(skyPoint.y), centerY)
    IN  [skyPoint EXCEPT
            !.x = Add(Add(Mul(x, cosdy), Mul(skyPoint.z, sindy)), centerX),
            !.y = Add(Add(Sub(Mul(Neg(x), my1), Mul(y, cosdx)), Mul(skyPoint.z, my3)), centerY),
            !.z = Add(Add(Mul(Neg(x), mz1), Mul(y, sindx)), Mul(skyPoint.z, mz3))]

zoomPoint(skyPoint, zoomFactor, centerX, centerY) ==
    [skyPoint EXCEPT
        !.x = Add(Mul(zoomFactor, Sub(skyPoint.x, centerX)), centerX),
        !.y = Add(Mul(zoomFactor, Sub(skyPoint.y, centerY)), centerY),
        !.z = Mul(zoomFactor, skyPoint.z)]

\* translatePoint that forgets the vertical offset
translatePointXOnly(skyPoint, offsetX, offsetY) ==
    [skyPoint EXCEPT !.x = Add(skyPoint.x, offsetX)]

translatePoint(skyPoint, offsetX, offsetY) ==
    [skyPoint EXCEPT !.x = Add(skyPoint.x, offsetX), !.y = Add(skyPoint.y, offsetY)]

rotateXY(s, c, dy, dx) ==
    applyTransform(c, [skyPoint \in SkyPoints(c) |->
        rotatePoint(skyPoint, dy, dx,
                    Div(s.containerWidth, I(2)), Div(s.containerHeight, I(2)))])

\* zoom: the own properties and the collections it leaves, before its drawSky
zoom(s, c, zoomFactor) ==
    [s |-> [s EXCEPT !.radius = Mul(s.radius, zoomFactor),
                     !.zoomFactor = IF PointCount(c) > 0 THEN zoomFactor ELSE @],
     c |-> applyTransform(c, [skyPoint \in SkyPoints(c) |->
              zoomPoint(skyPoint, zoomFactor,
                        Div(s.containerWidth, I(2)), Div(s.containerHeight, I(2)))])]

absoluteZoomFactor(s, zoomFactor) == Div(Mul(s.initialRadius, zoomFactor), s.radius)

absoluteZoom(s, c, zoomFactor) == zoom(s, c, absoluteZoomFactor(s, zoomFactor))

resizeFactor(width, height, paddingPercentage, radius) ==
    Div(Mul(MathMin(width, height), Or(paddingPercentage, R(9, 10))), Mul(I(2), radius))

\* setContainerSize: the own properties and the collections it leaves
setContainerSize(s, c, width, height, resize, paddingPercentage) ==
    LET offsetX == Div(Sub(width, s.containerWidth), I(2))
        offsetY == Div(Sub(height, s.containerHeight), I(2))
        s1 == [s EXCEPT !.containerWidth = width, !.containerHeight = height]
        c1 == applyTransform(c, [skyPoint \in SkyPoints(c) |->
                                    translatePoint(skyPoint, offsetX, offsetY)])
    IN  IF resize
        THEN zoom(s1, c1, resizeFactor(width, height, paddingPercentage, s1.radius))
        ELSE [s |-> s1, c |-> c1]

-----------------------------------------------------------------------------
(* The state after the module is loaded *)

NoOp == [op |-> "load", inst |-> 0, args |-> <<>>, threw |-> FALSE]
Blank == [lines |-> {}, stars |-> {}, objs |-> {}, threw |-> FALSE]

Loaded ==
    /\ instances = <<>>
    /\ sky = <<>>
    /\ starLines = <<>>
    /\ starPoints = <<>>
    /\ objectPoints = <<>>
    /\ ptr = <<>>
    /\ listeners = <<>>
    /\ timers = {}
    /\ timerSeq = 0
    /\ frames = 0
    /\ renew = FALSE
    /\ canvas = <<>>
    /\ clicks = <<>>
    /\ nOps = 0
    /\ last = NoOp

\* Helpers of the actions
Store(i, w) ==
    /\ sky' = [sky EXCEPT ![i] = w.s]
    /\ starLines' = w.c.starLines
    /\ starPoints' = w.c.starPoints
    /\ objectPoints' = w.c.objectPoints

Paint(i, c) ==
    canvas' = [canvas EXCEPT ![i].painted = drawSky(c)]

Did(op, i, args, threw) ==
    /\ last' = [op |-> op, inst |-> i, args |-> args, threw |-> threw]
    /\ nOps' = nOps + 1

Live == 1 .. Len(instances)

-----------------------------------------------------------------------------
(* new SkySphere(elementId, options) *)

\* The own properties init() gives a new instance
init(options) ==
    LET containerWidth == Or(options.width, I(400))
        containerHeight == Or(options.height, containerWidth)
        radius == Or(options.initialRadius,
                     Mul(MathMin(containerWidth, containerHeight), R(45, 100)))
    IN  [options |-> options,
         containerWidth |-> containerWidth,
         containerHeight |-> containerHeight,
         radius |-> radius,
         initialRadius |-> radius,
         zoomFactor |-> I(1),
         isMoving |-> FALSE,
         centeringXTimeout |-> 0,
         centeringYTimeout |-> 0]

\* The lines and the points init() pushes for the catalog
initLines(s) ==
    [k \in DOMAIN constellations.l |->
        [skyPoint1 |-> generateSkyPoint(s, constellations.s[constellations.l[k][1]][1],
                                           constellations.s[constellations.l[k][1]][2], NoData),
         skyPoint2 |-> generateSkyPoint(s, constellations.s[constellations.l[k][2]][1],
                                           constellations.s[constellations.l[k][2]][2], NoData)]]
initPoints(s) ==
    [k \in DOMAIN constellations.s |->
        generateSkyPoint(s, constellations.s[k][1], constellations.s[k][2], NoData)]

NoPointer ==
    [startX |-> UNDEFINED, startY |-> UNDEFINED, prevX |-> UNDEFINED,
     prevY |-> UNDEFINED, x |-> UNDEFINED, y |-> UNDEFINED]

\* Construct that does not notice a missing canvas: the instance is registered
\* and its points are pushed as if the canvas were there
ConstructDefersFailure(found, options) ==
    LET s == init(options)
    IN  /\ Len(instances) < MaxInstances
        /\ nOps < MaxOps
        /\ instances' = Append(instances, Len(instances) + 1)
        /\ sky' = Append(sky, s)
        /\ starLines' = starLines \o initLines(s)
        /\ starPoints' = starPoints \o initPoints(s)
        /\ ptr' = Append(ptr, NoPointer)
        /\ canvas' = Append(canvas,
                [width |-> s.containerWidth, height |-> s.containerHeight,
                 painted |-> Blank])
        /\ Did("new", Len(instances) + 1, <<found>>, FALSE)
        /\ UNCHANGED <<objectPoints, listeners, timers, timerSeq, frames, renew, clicks>>

\* found: whether document.getElementById(elementId) is a canvas.  When it is
\* null, init() throws on this.canvas.width before it pushes anything.
Construct(found, options) ==
    LET s == init(options)
    IN  /\ Len(instances) < MaxInstances
        /\ nOps < MaxOps
        /\ IF found
           THEN /\ instances' = Append(instances, Len(instances) + 1)
                /\ sky' = Append(sky, s)
                /\ starLines' = starLines \o initLines(s)
                /\ starPoints' = starPoints \o initPoints(s)
                /\ ptr' = Append(ptr, NoPointer)
                /\ canvas' = Append(canvas,
                        [width |-> s.containerWidth, height |-> s.containerHeight,
                         painted |-> Blank])
                /\ Did("new", Len(instances) + 1, <<found>>, FALSE)
           ELSE /\ Did("new", 0, <<found>>, TRUE)
                /\ UNCHANGED <<instances, sky, starLines, starPoints, ptr, canvas>>
        /\ UNCHANGED <<objectPoints, listeners, timers, timerSeq, frames, renew, clicks>>

-----------------------------------------------------------------------------
(* The public operations on the points *)

AddCustomObject(i, ra, dec, data) ==
    /\ i \in Live
    /\ Len(objectPoints) < MaxObjects
    /\ nOps < MaxOps
    /\ objectPoints' =
            Append(objectPoints, generateSkyPoint(sky[i], ra2rad(ra), dec2rad(dec), data))
    /\ Did("addCustomObject", i, <<ra, dec>>, FALSE)
    /\ UNCHANGED <<instances, sky, starLines, starPoints, ptr, listeners, timers,
                   timerSeq, frames, renew, canvas, clicks>>

RotateXY(i, dy, dx) ==
    /\ i \in Live
    /\ nOps < MaxRotations
    /\ Store(i, [s |-> sky[i], c |-> rotateXY(sky[i], Collections(i), dy, dx)])
    /\ Did("rotateXY", i, <<dy, dx>>, FALSE)
    /\ UNCHANGED <<instances, ptr, listeners, timers, timerSeq, frames, renew, canvas, clicks>>

Zoom(i, zoomFactor) ==
    /\ i \in Live
    /\ nOps < MaxOps
    /\ LET w == zoom(sky[i], Collections(i), zoomFactor)
           d == drawSky(w.c)
       IN  /\ Store(i, w)
           /\ canvas' = [canvas EXCEPT ![i].painted = d]
           /\ Did("zoom", i, <<zoomFactor>>, d.threw)
    /\ UNCHANGED <<instances, ptr, listeners, timers, timerSeq, frames, renew, clicks>>

AbsoluteZoom(i, zoomFactor) ==
    /\ i \in Live
    /\ nOps < MaxOps
    /\ LET w == absoluteZoom(sky[i], Collections(i), zoomFactor)
           d == drawSky(w.c)
       IN  /\ Store(i, w)
           /\ canvas' = [canvas EXCEPT ![i].painted = d]
           /\ Did("absoluteZoom", i, <<zoomFactor>>, d.threw)
    /\ UNCHANGED <<instances, ptr, listeners, timers, timerSeq, frames, renew, clicks>>

\* Assigning canvas.width and canvas.height clears the canvas; with resize the
\* zoom that follows draws the sky again.
SetContainerSize(i, width, height, resize, paddingPercentage) ==
    /\ i \in Live
    /\ nOps < MaxOps
    /\ LET w == setContainerSize(sky[i], Collections(i), width, height, resize,
                                 paddingPercentage)
           d == IF resize THEN drawSky(w.c) ELSE Blank
       IN  /\ Store(i, w)
           /\ canvas' = [canvas EXCEPT
                            ![i] = [width |-> width, height |-> height, painted |-> d]]
           /\ Did("setContainerSize", i, <<width, height, resize, paddingPercentage>>,
                  d.threw)
    /\ UNCHANGED <<instances, ptr, listeners, timers, timerSeq, frames, renew, clicks>>

DrawSky(i) ==
    /\ i \in Live
    /\ nOps < MaxOps
    /\ Paint(i, Collections(i))
    /\ Did("drawSky", i, <<>>, drawSky(Collections(i)).threw)
    /\ UNCHANGED <<instances, sky, starLines, starPoints, objectPoints, ptr, listeners,
                   timers, timerSeq, frames, renew, clicks>>

\* sky1.rotateXYAnimation(dPitch, dYaw) and sky1.stopMoving(), as the page
\* calls them: neither the instance nor SkySphere.prototype has such a property,
\* so the call throws a TypeError and nothing else happens.
RotateXYAnimation(i, dPitch, dYaw) ==
    /\ i \in Live
    /\ nOps < MaxOps
    /\ Did("rotateXYAnimation", i, <<dPitch, dYaw>>, TRUE)
    /\ UNCHANGED <<instances, sky, starLines, starPoints, objectPoints, ptr, listeners,
                   timers, timerSeq, frames, renew, canvas, clicks>>

StopMoving(i) ==
    /\ i \in Live
    /\ nOps < MaxOps
    /\ Did("stopMoving", i, <<>>, TRUE)
    /\ UNCHANGED <<instances, sky, starLines, starPoints, objectPoints, ptr, listeners,
                   timers, timerSeq, frames, renew, canvas, clicks>>

-----------------------------------------------------------------------------
(* The frame scheduler: step and nextFrame *)

\* nextFrame(): one more call of step is pending, through requestAnimationFrame
\* or, without it, through setTimeout(step, 1000 / FPS)
nextFrame(pending) == pending + 1

\* The instances step reaches, in registry order, before a drawSky throws:
\* those up to and including the first moving instance whose drawSky throws
RECURSIVE stepLoop(_, _)
stepLoop(i, c) ==
    IF i > Len(instances) THEN [drawn |-> <<>>, threw |-> FALSE]
    ELSE IF ~sky[i].isMoving THEN stepLoop(i + 1, c)
    ELSE IF drawSky(c).threw THEN [drawn |-> <<i>>, threw |-> TRUE]
    ELSE [drawn |-> <<i>> \o stepLoop(i + 1, c).drawn, threw |-> stepLoop(i + 1, c).threw]

\* One pending call of step runs.  A TypeError of drawSky ends it before
\* nextFrame() is reached.
Step ==
    /\ frames > 0
    /\ LET r == stepLoop(1, Collections(1))
           d == drawSky(Collections(1))
       IN  /\ renew' = (r.drawn # <<>>)
           /\ frames' = IF renew' /\ ~r.threw THEN nextFrame(frames - 1) ELSE frames - 1
           /\ canvas' = [i \in DOMAIN canvas |->
                            IF \E k \in DOMAIN r.drawn : r.drawn[k] = i
                            THEN [canvas[i] EXCEPT !.painted = d] ELSE canvas[i]]
           /\ last' = [op |-> "step", inst |-> 0,
                       args |-> <<{i \in Live : sky[i].isMoving}, r.drawn, frames' = frames>>,
                       threw |-> r.threw]
    /\ UNCHANGED <<instances, sky, starLines, starPoints, objectPoints, ptr, listeners,
                   timers, timerSeq, clicks, nOps>>

-----------------------------------------------------------------------------
(* Pointer input: startMove, onMove, stopMove *)

Listening(i) == \E k \in DOMAIN listeners : listeners[k] = i

\* mousedown / touchstart on the canvas of instance i at client position pos
StartMove(i, pos) ==
    /\ i \in Live
    /\ nOps < MaxOps
    /\ frames < MaxFrames
    /\ sky' = [sky EXCEPT ![i].isMoving = TRUE]
    /\ ptr' = [ptr EXCEPT ![i] =
                [startX |-> pos[1], startY |-> pos[2], prevX |-> pos[1], prevY |-> pos[2],
                 x |-> Sub(pos[1], clientRect.left), y |-> Sub(pos[2], clientRect.top)]]
    /\ listeners' = IF Listening(i) THEN listeners ELSE Append(listeners, i)
    /\ frames' = nextFrame(frames)
    /\ Did("startMove", i, <<pos>>, FALSE)
    /\ UNCHANGED <<instances, starLines, starPoints, objectPoints, timers, timerSeq,
                   renew, canvas, clicks>>

\* onMove of the listening instances ls, in the order they were registered
RECURSIVE onMoveAll(_, _, _)
onMoveAll(ls, c, pos) ==
    IF ls = <<>> THEN c
    ELSE onMoveAll(Tail(ls),
                   rotateXY(sky[Head(ls)], c,
                            Div(Sub(pos[1], ptr[Head(ls)].prevX), sky[Head(ls)].radius),
                            Div(Sub(pos[2], ptr[Head(ls)].prevY), sky[Head(ls)].radius)),
                   pos)

\* mousemove / touchmove on window at client position pos
OnMove(pos) ==
    /\ listeners # <<>>
    /\ nOps < MaxOps
    /\ LET c == onMoveAll(listeners, Collections(1), pos)
       IN  /\ starLines' = c.starLines
           /\ starPoints' = c.starPoints
           /\ objectPoints' = c.objectPoints
    /\ ptr' = [i \in DOMAIN ptr |->
                IF Listening(i) THEN [ptr[i] EXCEPT !.prevX = pos[1], !.prevY = pos[2]]
                ELSE ptr[i]]
    /\ Did("onMove", 0, <<pos>>, FALSE)
    /\ UNCHANGED <<instances, sky, listeners, timers, timerSeq, frames, renew, canvas, clicks>>

\* The object points the hit test of instance i accepts
Hits(i) ==
    {k \in DOMAIN Collections(i).objectPoints :
        LET skyPoint == Collections(i).objectPoints[k]
        IN  /\ Lt(MathAbs(Sub(skyPoint.x, ptr[i].x)), area)
            /\ Lt(MathAbs(Sub(skyPoint.y, ptr[i].y)), area)
            /\ Ge(skyPoint.z, I(0))}

\* hitTest that forgets to compare the last pointer position with the first
hitTestOfAnyGesture(i) ==
    LET first == CHOOSE k \in Hits(i) : \A j \in Hits(i) : k <= j
    IN  IF ~sky[i].options.customOnClick \/ Hits(i) = {} THEN [calls |-> <<>>, threw |-> FALSE]
        ELSE IF Collections(i).objectPoints[first].data = NoData
             THEN [calls |-> <<>>, threw |-> TRUE]
        ELSE [calls |-> <<[inst |-> i,
                           clickData |-> Collections(i).objectPoints[first].data.clickData]>>,
              threw |-> FALSE]

\* The end of stopMove of instance i: the calls of customOnClick it makes (none or
\* one), and whether reading skyPoint.data.clickData throws
hitTest(i) ==
    LET tap == /\ Eq(ptr[i].prevX, ptr[i].startX)
               /\ Eq(ptr[i].prevY, ptr[i].startY)
               /\ sky[i].options.customOnClick
        first == CHOOSE k \in Hits(i) : \A j \in Hits(i) : k <= j
    IN  IF ~tap \/ Hits(i) = {} THEN [calls |-> <<>>, threw |-> FALSE]
        ELSE IF Collections(i).objectPoints[first].data = NoData
             THEN [calls |-> <<>>, threw |-> TRUE]
        ELSE [calls |-> <<[inst |-> i,
                           clickData |-> Collections(i).objectPoints[first].data.clickData]>>,
              threw |-> FALSE]

RECURSIVE stopMoveAll(_)
stopMoveAll(ls) ==
    IF ls = <<>> THEN [calls |-> <<>>, threw |-> FALSE]
    ELSE [calls |-> hitTest(Head(ls)).calls \o stopMoveAll(Tail(ls)).calls,
          threw |-> hitTest(Head(ls)).threw \/ stopMoveAll(Tail(ls)).threw]

\* mouseup / touchend on window: stopMove of every listening instance
StopMove ==
    /\ listeners # <<>>
    /\ sky' = [i \in DOMAIN sky |->
                IF Listening(i) THEN [sky[i] EXCEPT !.isMoving = FALSE] ELSE sky[i]]
    /\ listeners' = <<>>
    /\ clicks' = clicks \o stopMoveAll(listeners).calls
    /\ last' = [op |-> "stopMove", inst |-> 0, args |-> <<listeners>>,
                threw |-> stopMoveAll(listeners).threw]
    /\ UNCHANGED <<instances, starLines, starPoints, objectPoints, ptr, timers, timerSeq,
                   frames, renew, canvas, nOps>>

-----------------------------------------------------------------------------
(* centerSkyPoint *)

\* The rotation step of the animation.  The source uses .05; the model uses a
\* coarser angle (Sin = 3/5, Cos = 4/5, about 37 degrees) so that the exact
\* arithmetic stays in range over a whole animation.
STEP == R(2, 3)

\* A sky point is referred to by its place in the collections
PointAt(c, ref) ==
    IF ref.col = "starLines"
    THEN (IF ref.end = 1 THEN c.starLines[ref.k].skyPoint1 ELSE c.starLines[ref.k].skyPoint2)
    ELSE IF ref.col = "starPoints" THEN c.starPoints[ref.k]
    ELSE c.objectPoints[ref.k]

\* moveYUntilCenter of the animation a of instance i: the own properties, the
\* collections and the pending timers it leaves.  w.seq is the last timer id.
moveYUntilCenter(i, a, w) ==
    LET y == Add(Neg(PointAt(w.c, a.ref).y), a.centerY)
    IN  IF (~Eq(y, I(0)) /\ Gt(a.dy, I(0)) /\ Lt(y, I(0))) \/ (Lt(a.dy, I(0)) /\ Gt(y, I(0)))
        THEN [s |-> [w.s EXCEPT !.centeringYTimeout = w.seq + 1],
              c |-> rotateXY(w.s, w.c, I(0), Neg(a.dy)),
              timers |-> w.timers \cup
                    {[id |-> w.seq + 1, inst |-> i, phase |-> "Y", anim |-> a, n |-> w.n + 1]},
              seq |-> w.seq + 1, n |-> w.n + 1, done |-> FALSE]
        ELSE [w EXCEPT !.s.isMoving = FALSE, !.done = TRUE]

moveXUntilCenter(i, a, w) ==
    LET x == Sub(PointAt(w.c, a.ref).x, a.centerX)
    IN  IF (~Eq(x, I(0)) /\ Gt(a.dx, I(0)) /\ Lt(x, I(0))) \/ (Lt(a.dx, I(0)) /\ Gt(x, I(0)))
        THEN [s |-> [w.s EXCEPT !.centeringXTimeout = w.seq + 1],
              c |-> rotateXY(w.s, w.c, a.dx, I(0)),
              timers |-> w.timers \cup
                    {[id |-> w.seq + 1, inst |-> i, phase |-> "X", anim |-> a, n |-> w.n + 1]},
              seq |-> w.seq + 1, n |-> w.n + 1, done |-> FALSE]
        ELSE moveYUntilCenter(i, a, w)

\* clearTimeout(id): a null id (0) and the id of a timer that has run clear nothing
clearTimeout(pending, id) == {t \in pending : t.id # id}

\* cancelCentering that forgets the timer of the vertical phase
cancelCenteringXOnly(s, pending) == clearTimeout(pending, s.centeringXTimeout)

\* The timers centerSkyPoint leaves pending before it starts the new animation
cancelCentering(s, pending) ==
    clearTimeout(clearTimeout(pending, s.centeringXTimeout), s.centeringYTimeout)

\* animation with the direction of the horizontal phase reversed
animationReversedX(s, c, ref) ==
    [ref |-> ref,
     centerX |-> Div(s.containerWidth, I(2)),
     centerY |-> Div(s.containerHeight, I(2)),
     dx |-> IF Lt(PointAt(c, ref).x, Div(s.containerWidth, I(2))) THEN Neg(STEP) ELSE STEP,
     dy |-> IF Gt(PointAt(c, ref).y, Div(s.containerHeight, I(2))) THEN STEP ELSE Neg(STEP)]

\* The closure of one centerSkyPoint call
animation(s, c, ref) ==
    [ref |-> ref,
     centerX |-> Div(s.containerWidth, I(2)),
     centerY |-> Div(s.containerHeight, I(2)),
     dx |-> IF Lt(PointAt(c, ref).x, Div(s.containerWidth, I(2))) THEN STEP ELSE Neg(STEP),
     dy |-> IF Gt(PointAt(c, ref).y, Div(s.containerHeight, I(2))) THEN STEP ELSE Neg(STEP)]

Resume(i, w) ==
    /\ Store(i, w)
    /\ timers' = w.timers
    /\ timerSeq' = w.seq

CenterSkyPoint(i, ref) ==
    /\ i \in Live
    /\ timerSeq < MaxTimers
    /\ frames < MaxFrames
    /\ LET w == moveXUntilCenter(i, animation(sky[i], Collections(i), ref),
                    [s |-> [sky[i] EXCEPT !.isMoving = TRUE], c |-> Collections(i),
                     timers |-> cancelCentering(sky[i], timers), seq |-> timerSeq,
                     n |-> 0, done |-> FALSE])
       IN  /\ Resume(i, w)
           /\ last' = [op |-> "centerSkyPoint", inst |-> i,
                       args |-> <<ref, w.done, w.n, timers \ cancelCentering(sky[i], timers)>>,
                       threw |-> FALSE]
    /\ frames' = nextFrame(frames)
    /\ UNCHANGED <<instances, ptr, listeners, renew, canvas, clicks, nOps>>

\* A pending centering timer runs
Timeout(t) ==
    /\ t \in timers
    /\ LET w0 == [s |-> sky[t.inst], c |-> Collections(t.inst), timers |-> timers \ {t},
                  seq |-> timerSeq, n |-> t.n, done |-> FALSE]
           w == IF t.phase = "X" THEN moveXUntilCenter(t.inst, t.anim, w0)
                ELSE moveYUntilCenter(t.inst, t.anim, w0)
       IN  /\ Resume(t.inst, w)
           /\ last' = [op |-> "timeout", inst |-> t.inst,
                       args |-> <<t.anim.ref, w.done, w.n, {}>>, threw |-> FALSE]
    /\ UNCHANGED <<instances, ptr, listeners, frames, renew, canvas, clicks, nOps>>

-----------------------------------------------------------------------------
(* Inputs of the exploration *)

ZoomFactors == {I(0), R(1, 2), I(2)}
Sizes == {<<I(30), I(20)>>, <<I(20), I(30)>>, <<I(30), I(30)>>}
Paddings == {UNDEFINED, I(0), R(1, 2)}
Angles == {I(0), I(1), I(-1)}

\* The page: new SkySphere('sky1', options), then two addCustomObject calls.
\* The first object faces the viewer, the second is behind the sphere.
PageOptions == [width |-> I(20), height |-> I(20), initialRadius |-> I(5), customOnClick |-> TRUE]
M42 == [color |-> "", radius |-> 0, clickData |-> "M42"]
Sun == [color |-> "#ffe400", radius |-> 5, clickData |-> "Sun"]
PageObjects(s) ==
    << generateSkyPoint(s, ra2rad(I(3)), dec2rad(I(-45)), M42),
       generateSkyPoint(s, ra2rad(I(0)), dec2rad(I(90)), Sun) >>

PageLoaded(options) ==
    LET s == init(options)
    IN  /\ instances = <<1>>
        /\ sky = <<s>>
        /\ starLines = initLines(s)
        /\ starPoints = initPoints(s)
        /\ objectPoints = PageObjects(s)
        /\ ptr = <<NoPointer>>
        /\ listeners = <<>>
        /\ timers = {}
        /\ timerSeq = 0
        /\ frames = 0
        /\ renew = FALSE
        /\ canvas = <<[width |-> s.containerWidth, height |-> s.containerHeight,
                       painted |-> drawSky([starLines |-> initLines(s),
                                            starPoints |-> initPoints(s),
                                            objectPoints |-> PageObjects(s)])]>>
        /\ clicks = <<>>
        /\ nOps = 0
        /\ last = [op |-> "drawSky", inst |-> 1, args |-> <<>>, threw |-> FALSE]

-----------------------------------------------------------------------------
(* SpecZoom: the page's instance under zoom, absoluteZoom and setContainerSize *)

InitZoom == PageLoaded(PageOptions)

NextZoom ==
    \/ \E f \in ZoomFactors : Zoom(1, f)
    \/ \E f \in ZoomFactors : AbsoluteZoom(1, f)
    \/ \E wh \in Sizes, resize \in BOOLEAN : SetContainerSize(1, wh[1], wh[2], resize, UNDEFINED)

SpecZoom == InitZoom /\ [][NextZoom]_vars

\* C6: after absoluteZoom(k) the radius is initialRadius * k, whatever zoom,
\* absoluteZoom and setContainerSize calls came before it.
C6_AbsoluteZoomReachesFactor ==
    last.op = "absoluteZoom" =>
        Eq(sky[last.inst].radius, Mul(sky[last.inst].initialRadius, last.args[1]))

-----------------------------------------------------------------------------
(* SpecResize: the page's instance under setContainerSize and zoom *)

InitResize == PageLoaded(PageOptions)

NextResize ==
    \/ \E wh \in Sizes : SetContainerSize(1, wh[1], wh[2], FALSE, UNDEFINED)
    \/ \E wh \in Sizes, padding \in Paddings : SetContainerSize(1, wh[1], wh[2], TRUE, padding)
    \/ Zoom(1, I(2))

SpecResize == InitResize /\ [][NextResize]_vars

AllPoints(c) ==
    [k \in 1 .. PointCount(c) |->
        IF k <= Len(c.starLines) THEN c.starLines[k].skyPoint1
        ELSE IF k <= 2 * Len(c.starLines) THEN c.starLines[k - Len(c.starLines)].skyPoint2
        ELSE IF k <= 2 * Len(c.starLines) + Len(c.starPoints)
             THEN c.starPoints[k - 2 * Len(c.starLines)]
        ELSE c.objectPoints[k - 2 * Len(c.starLines) - Len(c.starPoints)]]

\* C8: setContainerSize(w2, h2, false) on an instance of size (w1, h1) adds
\* ((w2 - w1) / 2, (h2 - h1) / 2) to the (x, y) of every line end point, star
\* point and object point, sets the container size to (w2, h2), and leaves every
\* z, the radius, the initial radius and the zoom factor as they were.
C8_ResizeTranslates ==
    [][ (last'.op = "setContainerSize" /\ last'.args[3] = FALSE) =>
            LET i == last'.inst
                offX == Div(Sub(last'.args[1], sky[i].containerWidth), I(2))
                offY == Div(Sub(last'.args[2], sky[i].containerHeight), I(2))
                before == AllPoints(Collections(i))
                after == AllPoints(Collections(i))'
            IN  /\ DOMAIN after = DOMAIN before
                /\ \A k \in DOMAIN before :
                        /\ after[k].x = Add(before[k].x, offX)
                        /\ after[k].y = Add(before[k].y, offY)
                        /\ after[k].z = before[k].z
                /\ sky'[i].containerWidth = last'.args[1]
                /\ sky'[i].containerHeight = last'.args[2]
                /\ sky'[i].radius = sky[i].radius
                /\ sky'[i].initialRadius = sky[i].initialRadius
                /\ sky'[i].zoomFactor = sky[i].zoomFactor ]_vars

\* A resize without rescaling that moved the center, on points that a zoom has
\* scaled before.
C8_Witness ==
    /\ last.op = "setContainerSize" /\ last.args[3] = FALSE
    /\ sky[1].containerWidth = I(30) /\ sky[1].containerHeight = I(20)
    /\ sky[1].radius = I(10)
    /\ Len(objectPoints) = 2 /\ objectPoints[1].x = Add(I(15), R(24, 5))

\* C9: setContainerSize(w2, h2, true, padding) leaves the radius equal to
\* min(w2, h2) * padding / 2 for every padding in [0, 1] the caller passes.
C9_ResizeRadius ==
    (last.op = "setContainerSize" /\ last.args[3] = TRUE /\ last.args[4] # UNDEFINED) =>
        Eq(sky[last.inst].radius,
           Div(Mul(MathMin(last.args[1], last.args[2]), last.args[4]), I(2)))

-----------------------------------------------------------------------------
(* SpecRotate: the page's instance, with a sphere of radius 1, under rotateXY  *)
(* about moving centers                                                       *)

UnitOptions == [width |-> I(20), height |-> I(20), initialRadius |-> I(1), customOnClick |-> TRUE]

InitRotate == PageLoaded(UnitOptions)

\* Whether every coordinate of the collections has a denominator of at most
\* MaxDenominator: from such coordinates one more rotation, and the squares of
\* what it gives, stay within the range of the exact arithmetic.
Exact(c) ==
    \A k \in DOMAIN AllPoints(c) :
        /\ AllPoints(c)[k].x[2] <= MaxDenominator
        /\ AllPoints(c)[k].y[2] <= MaxDenominator
        /\ AllPoints(c)[k].z[2] <= MaxDenominator

NextRotate ==
    \/ \E dy \in Angles, dx \in Angles : Exact(Collections(1)) /\ RotateXY(1, dy, dx)
    \/ \E wh \in Sizes : SetContainerSize(1, wh[1], wh[2], FALSE, UNDEFINED)

SpecRotate == InitRotate /\ [][NextRotate]_vars

\* (x - centerX)^2 + (y - centerY)^2 + z^2
NormSq(p, s) ==
    LET x == Sub(p.x, Div(s.containerWidth, I(2)))
        y == Sub(p.y, Div(s.containerHeight, I(2)))
    IN  Add(Add(Mul(x, x), Mul(y, y)), Mul(p.z, p.z))

\* C7: rotateXY preserves, for every tracked point and every pair of angles,
\* (x - centerX)^2 + (y - centerY)^2 + z^2.
C7_RotationPreservesNorm ==
    [][ last'.op = "rotateXY" =>
            LET i == last'.inst
                before == AllPoints(Collections(i))
                after == AllPoints(Collections(i))'
            IN  /\ DOMAIN after = DOMAIN before
                /\ \A k \in DOMAIN before :
                        NormSq(after[k], sky'[i]) = NormSq(before[k], sky[i]) ]_vars

\* A rotation about both axes, after the center has moved, has taken the first
\* object behind the sphere.
C7_Witness ==
    /\ last.op = "rotateXY" /\ last.args = <<I(1), I(-1)>>
    /\ sky[1].containerWidth = I(30)
    /\ Lt(objectPoints[1].z, I(0))
    /\ NormSq(objectPoints[1], sky[1]) = I(1)

-----------------------------------------------------------------------------
(* SpecCenter: centering animations on the page's instance, preempting one     *)
(* another                                                                    *)

CenterTargets ==
    { [col |-> "objectPoints", k |-> 1, end |-> 0],
      [col |-> "objectPoints", k |-> 2, end |-> 0],
      [col |-> "starPoints", k |-> 2, end |-> 0] }

InitCenter == PageLoaded(PageOptions)

\* Before the first animation the page turns the sphere by quarter turns, so
\* that animations start from every side of the sphere.
QuarterTurns == {I(0), I(2), I(-2)}

NextCenter ==
    \/ \E dy \in QuarterTurns, dx \in QuarterTurns :
            nOps = 0 /\ frames = 0 /\ RotateXY(1, dy, dx)
    \/ \E ref \in CenterTargets : CenterSkyPoint(1, ref)
    \/ \E t \in timers : Timeout(t)

SpecCenter == InitCenter /\ [][NextCenter]_vars

Centering(i) == {t \in timers : t.inst = i}

\* C2: at most one centering timer of an instance is pending, and a call of
\* centerSkyPoint leaves none of the timers that were pending for its instance:
\* no step of a preempted animation can run after it.
C2_NewCenteringCancelsOld ==
    /\ [](\A i \in Live : Cardinality(Centering(i)) <= 1)
    /\ [][ last'.op = "centerSkyPoint" =>
                \A t \in Centering(last'.inst) : t \notin timers' ]_vars

\* A call of centerSkyPoint has cancelled the timer of an animation in its
\* vertical phase and started its own timer.
C2_Witness ==
    /\ last.op = "centerSkyPoint"
    /\ \E t \in last.args[4] : t.phase = "Y"
    /\ \E t \in timers : t.inst = last.inst /\ t.phase = "X"

\* Whether the point is within one rotation step of the center of the
\* viewport of the instance with own properties s, on both axes
NearCenter(p, s) ==
    /\ Le(MathAbs(Sub(p.x, Div(s.containerWidth, I(2)))), Mul(s.radius, Sin(STEP)))
    /\ Le(MathAbs(Sub(p.y, Div(s.containerHeight, I(2)))), Mul(s.radius, Sin(STEP)))

\* C3: a centering animation takes a bounded number of timer steps (at most 5
\* rotations by STEP, more than a half turn, in each of its two phases), and
\* when it completes the point is within one rotation step of the center of the
\* viewport on both axes and isMoving is false.
C3_CenteringConverges ==
    /\ \A t \in timers : t.n <= 10
    /\ (last.op \in {"centerSkyPoint", "timeout"} /\ last.args[2]) =>
            /\ NearCenter(PointAt(Collections(last.inst), last.args[1]), sky[last.inst])
            /\ ~sky[last.inst].isMoving
            /\ Centering(last.inst) = {}

\* An animation that took steps in both of its phases has completed on a point
\* that started away from the center.
C3_Witness ==
    /\ last.op = "timeout" /\ last.args[2] /\ last.args[3] >= 3
    /\ last.args[1] = [col |-> "objectPoints", k |-> 1, end |-> 0]
    /\ objectPoints[1].x # I(10) /\ objectPoints[1].y # I(10)
    /\ Gt(objectPoints[1].z, I(0))

-----------------------------------------------------------------------------
(* Spec: the module from its load on: pages construct up to MaxInstances       *)
(* instances, add objects and call the public operations on them              *)

SomeOptions ==
    { PageOptions,
      [width |-> I(30), height |-> UNDEFINED, initialRadius |-> UNDEFINED, customOnClick |-> FALSE] }

Init == Loaded

Next ==
    \/ \E found \in BOOLEAN, options \in SomeOptions : Construct(found, options)
    \/ \E i \in Live, data \in {Sun, NoData} : AddCustomObject(i, I(3), I(-45), data)
    \/ \E i \in Live : RotateXY(i, I(1), I(-1))
    \/ \E i \in Live : Zoom(i, I(2))
    \/ \E i \in Live : AbsoluteZoom(i, R(1, 2))
    \/ \E i \in Live, resize \in BOOLEAN : SetContainerSize(i, I(30), I(20), resize, UNDEFINED)

Spec == Init /\ [][Next]_vars

\* C1: constructing an instance, or calling addCustomObject, rotateXY, zoom,
\* absoluteZoom or setContainerSize on one, leaves the starLines, starPoints and
\* objectPoints of every other instance as they were.
C1_CollectionsAreOwned ==
    [][ \A j \in Live :
            ( /\ last'.op \in {"new", "addCustomObject", "rotateXY", "zoom", "absoluteZoom",
                               "setContainerSize"}
              /\ last'.inst # j )
            => Collections(j)' = Collections(j) ]_vars

\* C13: constructing a SkySphere whose container element does not exist aborts
\* with an error: the instance is not appended to the registry and no point is
\* added to any collection.
C13_MissingCanvasFailsFast ==
    [][ (last'.op = "new" /\ ~last'.args[1]) =>
            /\ last'.threw
            /\ instances' = instances
            /\ sky' = sky
            /\ starLines' = starLines
            /\ starPoints' = starPoints
            /\ objectPoints' = objectPoints ]_vars

\* A construction has failed after another one had succeeded and an object had
\* been added.
C13_Witness ==
    /\ last.op = "new" /\ ~last.args[1] /\ last.threw
    /\ Len(instances) = 1
    /\ Len(starPoints) = Len(constellations.s)
    /\ Len(objectPoints) = 1

-----------------------------------------------------------------------------
(* SpecSched: a page with two instances, one object with data and one without, *)
(* under pointer gestures, centering animations and the frame scheduler       *)

TwoLoaded ==
    LET s == init(PageOptions)
        objects == << generateSkyPoint(s, ra2rad(I(0)), dec2rad(I(90)), Sun),
                      generateSkyPoint(s, ra2rad(I(3)), dec2rad(I(-45)), NoData) >>
    IN  /\ instances = <<1, 2>>
        /\ sky = <<s, s>>
        /\ starLines = initLines(s) \o initLines(s)
        /\ starPoints = initPoints(s) \o initPoints(s)
        /\ objectPoints = objects
        /\ ptr = <<NoPointer, NoPointer>>
        /\ listeners = <<>>
        /\ timers = {}
        /\ timerSeq = 0
        /\ frames = 0
        /\ renew = FALSE
        /\ canvas = [i \in {1, 2} |->
                        [width |-> s.containerWidth, height |-> s.containerHeight,
                         painted |-> Blank]]
        /\ clicks = <<>>
        /\ nOps = 0
        /\ last = [op |-> "addCustomObject", inst |-> 2, args |-> <<I(3), I(-45)>>,
                   threw |-> FALSE]

TheSun == [col |-> "objectPoints", k |-> 1, end |-> 0]

InitSched == TwoLoaded

\* The mouse is pressed on either canvas at the center of the sphere, at most
\* MaxPresses times and never twice without a release, and moves to the right;
\* the page centers the Sun on the first instance once.
NextSched ==
    \/ \E i \in Live : listeners = <<>> /\ nOps < MaxPresses /\ StartMove(i, <<I(10), I(10)>>)
    \/ OnMove(<<I(15), I(10)>>)
    \/ StopMove
    \/ timerSeq = 0 /\ CenterSkyPoint(1, TheSun)
    \/ \E t \in timers : Timeout(t)
    \/ Step

SpecSched == InitSched /\ [][NextSched]_vars

\* C4: isMoving is true whenever a drag gesture (after startMove, before
\* stopMove) or a centering animation (a centering timer pending) is in progress.
C4_MovingWhileDragOrCentering ==
    \A i \in Live : (Listening(i) \/ Centering(i) # {}) => sky[i].isMoving

\* C5: a step redraws exactly the instances that are moving and schedules
\* another step if and only if some instance was moving; a step is pending
\* whenever some instance is moving.
C5_StepFollowsMoving ==
    /\ (\E i \in Live : sky[i].isMoving) => frames > 0
    /\ last.op = "step" =>
            /\ {last.args[2][k] : k \in DOMAIN last.args[2]} = last.args[1]
            /\ ~last.threw
            /\ last.args[3] <=> (last.args[1] # {})

\* C17: at most one call of step is pending at any time, whatever startMove
\* and centerSkyPoint calls are made on any instance, also while the scheduler
\* is already running.
C17_AtMostOneTick == frames <= 1

-----------------------------------------------------------------------------
(* SpecTap: one instance with a click callback; the page adds objects in      *)
(* front of and behind the sphere, with and without data, draws the sky, and   *)
(* the user taps or drags                                                     *)

InitTap ==
    LET s == init(PageOptions)
    IN  /\ instances = <<1>>
        /\ sky = <<s>>
        /\ starLines = initLines(s)
        /\ starPoints = initPoints(s)
        /\ objectPoints = <<>>
        /\ ptr = <<NoPointer>>
        /\ listeners = <<>>
        /\ timers = {}
        /\ timerSeq = 0
        /\ frames = 0
        /\ renew = FALSE
        /\ canvas = <<[width |-> s.containerWidth, height |-> s.containerHeight,
                       painted |-> Blank]>>
        /\ clicks = <<>>
        /\ nOps = 0
        /\ last = [op |-> "new", inst |-> 1, args |-> <<TRUE>>, threw |-> FALSE]

\* <<ra, dec>> of the objects: at (12.4, 6.8) in front, at (14, 10) in front and
\* at (14, 10) behind the sphere
Places == {<<I(3), I(-45)>>, <<I(0), I(-45)>>, <<I(0), I(90)>>}
\* A press near all three places, and one far from them
TapPositions == {<<I(13), I(8)>>, <<I(2), I(18)>>}

NextTap ==
    \/ \E place \in Places, data \in {Sun, NoData} : AddCustomObject(1, place[1], place[2], data)
    \/ DrawSky(1)
    \/ \E pos \in TapPositions : listeners = <<>> /\ StartMove(1, pos)
    \/ \E pos \in TapPositions : OnMove(pos)
    \/ StopMove

SpecTap == InitTap /\ [][NextTap]_vars

\* The pointer of instance i has not moved since it was pressed, and the
\* instance has a click callback
Tapped(i) ==
    /\ Listening(i)
    /\ ptr[i].prevX = ptr[i].startX /\ ptr[i].prevY = ptr[i].startY
    /\ sky[i].options.customOnClick

\* The objects of instance i in front of the sphere whose x and whose y are each
\* within the tolerance of the position of the press
Qualifying(i) ==
    {k \in DOMAIN Collections(i).objectPoints :
        /\ Lt(MathAbs(Sub(Collections(i).objectPoints[k].x, ptr[i].x)), area)
        /\ Lt(MathAbs(Sub(Collections(i).objectPoints[k].y, ptr[i].y)), area)
        /\ Ge(Collections(i).objectPoints[k].z, I(0))}

\* The calls of the callback a tap on instance i is to make
Reported(i) ==
    IF Qualifying(i) = {} THEN <<>>
    ELSE LET first == CHOOSE k \in Qualifying(i) : \A j \in Qualifying(i) : k <= j
             data == Collections(i).objectPoints[first].data
         IN  <<[inst |-> i,
                clickData |-> IF data = NoData THEN UNDEFINED ELSE data.clickData]>>

\* C10: at the end of a tap the callback is invoked exactly once, with the
\* clickData of the first object in insertion order whose x and y are each
\* within the tolerance of the tap and whose z >= 0; it is not invoked when no
\* object qualifies.
C10_TapReportsFirstHit ==
    [][ (last'.op = "stopMove" /\ Tapped(1)) => clicks' = clicks \o Reported(1) ]_vars

\* The pointer of instance i is not where it was pressed
Dragged(i) ==
    /\ Listening(i)
    /\ ptr[i].prevX # ptr[i].startX \/ ptr[i].prevY # ptr[i].startY

\* C11: the hit test runs only for a tap: at the end of a gesture whose last
\* pointer position differs from the position of the press, customOnClick is
\* not invoked.
C11_DragReportsNothing ==
    [][ (last'.op = "stopMove" /\ Dragged(1)) => clicks' = clicks ]_vars

\* A gesture has ended away from where it began, with an object that carries
\* data in front of the sphere and within the tolerance of the press.
C11_Witness ==
    /\ last.op = "stopMove"
    /\ ptr[1].prevX # ptr[1].startX
    /\ \E k \in Qualifying(1) : objectPoints[k].data # NoData
    /\ clicks = <<>>

\* C12: an object added without data has no data; every later drawSky and
\* every later hit test completes without raising an error, and no call of
\* customOnClick is made for an object without data.
C12_PayloadlessIsHarmless ==
    /\ last.op \in {"drawSky", "stopMove", "step", "zoom", "absoluteZoom", "setContainerSize"}
            => ~last.threw
    /\ \A k \in DOMAIN clicks : clicks[k].clickData # UNDEFINED

-----------------------------------------------------------------------------
(* SpecPage: the debug page after its script has run, under the clicks on its  *)
(* animate, stop and zoom buttons and the resize of its window                *)

InitPage == PageLoaded(PageOptions)

NextPage ==
    \/ RotateXYAnimation(1, I(-1), I(1))
    \/ StopMoving(1)
    \/ \E f \in ZoomFactors : AbsoluteZoom(1, f)
    \/ \E wh \in Sizes : SetContainerSize(1, wh[1], sky[1].containerHeight, TRUE, UNDEFINED)

SpecPage == InitPage /\ [][NextPage]_vars

\* C14: rotateXYAnimation(dPitch, dYaw) puts the instance in auto-rotation with
\* isMoving true, which lasts until stopMoving(), after which isMoving is false;
\* neither call fails.
C14_AnimationRunsUntilStopped ==
    /\ last.op = "rotateXYAnimation" => (~last.threw /\ sky[last.inst].isMoving)
    /\ last.op = "stopMoving" => (~last.threw /\ ~sky[last.inst].isMoving)

-----------------------------------------------------------------------------
(* SpecDraw: the page's instance turned, zoomed, resized and drawn             *)

InitDraw == PageLoaded(PageOptions)

NextDraw ==
    \/ \E dy \in QuarterTurns, dx \in {I(0), I(1)} : RotateXY(1, dy, dx)
    \/ \E f \in {R(1, 2), I(2)} : Zoom(1, f)
    \/ \E f \in {I(0), R(1, 2)} : AbsoluteZoom(1, f)
    \/ \E resize \in BOOLEAN : SetContainerSize(1, I(30), I(20), resize, UNDEFINED)
    \/ DrawSky(1)

SpecDraw == InitDraw /\ [][NextDraw]_vars

\* C15: whenever the sky is drawn, every constellation line that is painted has
\* both endpoints at z > 0 and every star point and custom object that is
\* painted has z >= 0: nothing behind the sphere is drawn.
C15_NothingBehindIsDrawn ==
    [][ \A i \in DOMAIN canvas :
            (\/ canvas'[i].painted # canvas[i].painted
             \/ last'.inst = i /\ last'.op \in {"drawSky", "zoom", "absoluteZoom", "setContainerSize"})
            => /\ \A k \in canvas'[i].painted.lines :
                    /\ Gt(starLines'[k].skyPoint1.z, I(0))
                    /\ Gt(starLines'[k].skyPoint2.z, I(0))
               /\ \A k \in canvas'[i].painted.stars : Ge(starPoints'[k].z, I(0))
               /\ \A k \in canvas'[i].painted.objs : Ge(objectPoints'[k].z, I(0)) ]_vars

\* The sky was drawn after the sphere was turned: the line, whose second
\* endpoint started behind the sphere, is painted, and an object that is now
\* behind the sphere is not.
C15_Witness ==
    /\ last.op = "drawSky"
    /\ canvas[1].painted.lines = {1}
    /\ \E k \in DOMAIN objectPoints :
            Lt(objectPoints[k].z, I(0)) /\ k \notin canvas[1].painted.objs

\* The star point generated from the same catalog entry as an end point of
\* line k: every init() pushes the lines of the catalog and then its stars, so
\* the lines and the stars of the n-th init() follow those of the inits before.
StarOf(k, end) ==
    LET inst == (k - 1) \div Len(constellations.l)
        line == constellations.l[((k - 1) % Len(constellations.l)) + 1]
    IN  inst * Len(constellations.s) + line[end]

SamePlace(p, q) == p.x = q.x /\ p.y = q.y /\ p.z = q.z

\* C16: after any sequence of rotateXY, zoom, absoluteZoom and setContainerSize
\* calls every end point of a constellation line has the same x, y and z as the
\* star point of the catalog index it was generated from: every transform is
\* applied once to each of them.
C16_EndpointsFollowTheirStars ==
    /\ Len(starPoints) * Len(constellations.l) = Len(starLines) * Len(constellations.s)
    /\ \A k \in DOMAIN starLines :
            /\ SamePlace(starLines[k].skyPoint1, starPoints[StarOf(k, 1)])
            /\ SamePlace(starLines[k].skyPoint2, starPoints[StarOf(k, 2)])

\* The sphere was rotated (an end point that init() placed behind the sphere
\* faces the viewer), the container was resized, and absoluteZoom has just run.
C16_Witness ==
    /\ last.op = "absoluteZoom"
    /\ sky[1].containerWidth # PageOptions.width
    /\ \E k \in DOMAIN starLines : Gt(starLines[k].skyPoint2.z, I(0))

-----------------------------------------------------------------------------
(* SpecAnim: one centering animation of the page's instance, its 30 ms timer,  *)
(* the frame scheduler and a press and release of the mouse on the canvas,    *)
(* in every order the browser can run them.  Nothing else moves the sphere.   *)

InitAnim == PageLoaded(PageOptions)

TheM42 == [col |-> "objectPoints", k |-> 1, end |-> 0]

NextAnim ==
    \/ timerSeq = 0 /\ CenterSkyPoint(1, TheM42)
    \/ \E t \in timers : Timeout(t)
    \/ Step
    \/ listeners = <<>> /\ nOps < MaxPresses /\ StartMove(1, <<I(2), I(18)>>)
    \/ StopMove

SpecAnim == InitAnim /\ [][NextAnim]_vars

\* Nothing of instance i is pending: no centering timer, no call of step, no
\* pointer held down
Quiescent(i) == Centering(i) = {} /\ frames = 0 /\ ~Listening(i)

\* C18: every rotation a centering animation applies is eventually drawn, under
\* every interleaving of the centering timer, the scheduler's steps and a
\* release of the pointer: once nothing is pending any more, the canvas shows
\* the sky as the last rotation left it.
C18_RotationsAreDrawn ==
    Quiescent(1) => canvas[1].painted = drawSky(Collections(1))

-----------------------------------------------------------------------------
(* SpecResizeAnim: the window is resized once while a centering animation of  *)
(* the page's instance is in progress.  An animation that has not completed   *)
(* after MaxSteps rotations is followed no further.                           *)

InitResizeAnim == PageLoaded(PageOptions)

NextResizeAnim ==
    \/ \E ref \in CenterTargets : timerSeq = 0 /\ CenterSkyPoint(1, ref)
    \/ \E t \in timers : t.n < MaxSteps /\ Timeout(t)
    \/ \E wh \in Sizes, resize \in BOOLEAN :
            /\ Centering(1) # {}
            /\ nOps = 0
            /\ SetContainerSize(1, wh[1], wh[2], resize, UNDEFINED)

SpecResizeAnim == InitResizeAnim /\ [][NextResizeAnim]_vars

\* C19: a centering animation during which setContainerSize was called still
\* completes (in fewer than MaxSteps rotations; undisturbed, none takes more
\* than 5) with isMoving false, and when it completes the point is within one
\* rotation step of the center of the viewport of the new container size.
C19_CentersInTheNewViewport ==
    /\ \A t \in timers : t.n < MaxSteps
    /\ (last.op = "timeout" /\ last.args[2]) =>
            /\ NearCenter(PointAt(Collections(1), last.args[1]), sky[1])
            /\ ~sky[1].isMoving

=============================================================================
